---- MODULE Spec2Model ----
(***************************************************************************)
(* KASPER Telegram bot (kasper_telegram_bot.py): the per-user session      *)
(* store, the 24h message quota, and the two Telegram handlers             *)
(* start_command and handle_text_message with the realtime WebSocket       *)
(* exchange of send_message_gpt.                                           *)
(*                                                                         *)
(* The handlers are coroutines.  Each action below is the code a handler   *)
(* runs between two suspension points (await); while a handler is         *)
(* suspended the clock, the backend and the transport go on.  The          *)
(* Application main() builds runs one handler at a time.  Time is counted  *)
(* in hours.                                                               *)
(***************************************************************************)
EXTENDS Integers, Sequences, FiniteSets, TLC

\* ---------------------------------------------------------------- bounds
MaxTime == 24
MaxUpdates == 4
MaxFairUpdates == 2
MaxInbox == 1
MaxReq == 2
\* int(os.getenv("MAX_MESSAGES_PER_USER", "15")): configurable, kept small
MAX_MESSAGES_PER_USER == 1

\* ------------------------------------------------------------- constants
\* timedelta(hours=24)
WINDOW == 24
\* the clock advances a window at a time
Step == WINDOW
\* the cooldown of the specification's RateLimiter, in seconds
COOLDOWN == 45


Users == {"u1", "u2"}
Tasks == {1, 2}
\* None, as returned by openai_realtime_connect on failure and stored in "ws"
NoWs == 0
\* the empty string final_text starts as
NoText == 0
\* what one message of the connection can be to the loop of send_message_gpt:
\* a "response.done" event with its text, a "response.done" event from which
\* no text can be taken (lines 195-196), an object with any other type tag,
\* an object tagged "error", text that json.loads rejects, JSON that is not
\* an object (data.get raises AttributeError), bytes that do not decode
\* (json.loads raises UnicodeDecodeError), and the empty message
Kinds == {"done", "notext", "other", "error", "nonjson", "nonobject",
          "binary", "empty"}
\* the events that answer a request
Completions == {"done", "notext"}
\* the messages that end the receive loop without a completion event
Aborting == {"empty", "nonobject", "binary"}

VARIABLES
    now,                  \* datetime.utcnow(), in hours
    USER_SESSIONS,        \* user -> session entry
    USER_MESSAGE_LIMITS,  \* user -> rate-limit entry
    conns,                \* user -> the WebSocket connections opened for the
                          \*         user by openai_realtime_connect, in order;
                          \*         "ws" is a position in it
    tasks,                \* the running handler invocations
    budget,               \* number of updates still to be dispatched
    recent,               \* history: a turn of the user was accepted less
                          \*          than the cooldown ago
    quotaUntil            \* history: end of the window in which the user
                          \*          used up the quota, or -1

vars == <<now, USER_SESSIONS, USER_MESSAGE_LIMITS, conns, tasks,
          budget, recent, quotaUntil>>

\* ------------------------------------------------------ session store
NoSession == [present |-> FALSE, ws |-> NoWs, persona |-> ""]

\* USER_SESSIONS[user_id] = {"ws": None, "persona": kasper_persona}
NewSession == [present |-> TRUE, ws |-> NoWs, persona |-> "KASPER"]

\* ------------------------------------------------------ rate limiter
NoLimit == [present |-> FALSE, count |-> 0, reset_time |-> 0]

\* defaultdict(lambda: {"count": 0, "reset_time": utcnow() + 24h})
DefaultLimit(t) == [present |-> TRUE, count |-> 0, reset_time |-> t + WINDOW]

\* USER_MESSAGE_LIMITS[user_id]: the entry, created on first access
LimitOf(info, t) == IF info.present THEN info ELSE DefaultLimit(t)

\* datetime.utcnow() >= rate_info["reset_time"]
WindowElapsed(t, reset_time) == t >= reset_time

LazyResetKeepsCount(info, t) ==
    IF WindowElapsed(t, info.reset_time)
    THEN [info EXCEPT !.reset_time = t + WINDOW]
    ELSE info

\* if utcnow() >= reset_time: count = 0; reset_time = utcnow() + 24h
LazyReset(info, t) ==
    IF WindowElapsed(t, info.reset_time)
    THEN [info EXCEPT !.count = 0, !.reset_time = t + WINDOW]
    ELSE info

QuotaReachedOffByOne(count) == count > MAX_MESSAGES_PER_USER

\* rate_info["count"] >= MAX_MESSAGES_PER_USER
QuotaReached(count) == count >= MAX_MESSAGES_PER_USER

\* rate_info["count"] += 1
Consume(info) == [info EXCEPT !.count = @ + 1]

RateLimitConsumeFirst(info, t) ==
    LET r == Consume(LazyReset(LimitOf(info, t), t))
    IN  [info |-> r, denied |-> QuotaReached(r.count - 1)]

\* the rate-limiting block of handle_text_message: the entry afterwards and
\* whether the turn was denied
RateLimit(info, t) ==
    LET r == LazyReset(LimitOf(info, t), t)
    IN  IF QuotaReached(r.count)
        THEN [info |-> r, denied |-> TRUE]
        ELSE [info |-> Consume(r), denied |-> FALSE]

ResetLimitKeepsWindow(info, t) ==
    IF info.present THEN [info EXCEPT !.count = 0]
    ELSE [DefaultLimit(t) EXCEPT !.count = 0]

\* USER_MESSAGE_LIMITS[user_id]["count"] = 0; ["reset_time"] = utcnow() + 24h
ResetLimit(info, t) ==
    [LimitOf(info, t) EXCEPT !.count = 0, !.reset_time = t + WINDOW]

\* ------------------------------------------------------ handler frames
IdleTask ==
    [kind |-> "none", user |-> "u1", pc |-> "idle", ws |-> NoWs,
     req |-> 0, final |-> NoText, verdict |-> "none", outcome |-> "none",
     sent |-> FALSE, tts |-> "none", lost |-> FALSE, active |-> FALSE,
     reset |-> FALSE, full |-> FALSE, inQuota |-> FALSE, tooSoon |-> FALSE,
     onLost |-> FALSE, delivered |-> "none"]

WsAvailableInverted(ws) == ws = NoWs

\* "if not ws" is the rejection; a connection object is truthy
WsAvailable(ws) == ws # NoWs

\* lines 296-308: strip, the empty-text return, the ws check
Proceed(s, empty) ==
    IF empty THEN [pc |-> "done", outcome |-> "empty", ws |-> NoWs]
    ELSE IF ~WsAvailable(s.ws)
         THEN [pc |-> "done", outcome |-> "nows", ws |-> NoWs]
         ELSE [pc |-> "send", outcome |-> "none", ws |-> s.ws]

OnDeniedNoReturn(s, empty) == Proceed(s, empty)

\* lines 289-291: the quota reply and the return
OnDenied(s, empty) == [pc |-> "done", outcome |-> "quota", ws |-> NoWs]

\* the connection a frame holds
ConnOf(f) == conns[f.user][f.ws]

\* requests written to connection c of user u or about to be (bounds the
\* request ids)
Committed(u, c) ==
    IF c # NoWs
    THEN conns[u][c].sent
         + Cardinality({t \in Tasks : /\ tasks[t].pc = "send"
                                      /\ tasks[t].user = u
                                      /\ tasks[t].ws = c})
    ELSE 0

\* The empty-text return (line 298) sends no reply: the handler returns
\* without suspending, so nothing else runs before its frame is free.  On
\* every other path a frame at "done" is suspended in its last reply.
NoneReturning ==
    \A t \in Tasks : ~(tasks[t].pc = "done" /\ tasks[t].outcome = "empty")

FreeFrameUnserialized(t) ==
    /\ tasks[t].pc = "idle"
    /\ \A t2 \in Tasks : t2 < t => tasks[t2].pc # "idle"
    /\ NoneReturning

\* The Application is built without concurrent_updates and the handlers
\* are added blocking: it awaits each update's handler before it takes the
\* next update from the queue.  A new invocation takes the first free frame.
FreeFrame(t) ==
    /\ tasks[t].pc = "idle"
    /\ \A t2 \in Tasks : t2 < t => tasks[t2].pc # "idle"
    /\ \A t2 \in Tasks : tasks[t2].pc = "idle"
    /\ NoneReturning

\* ------------------------------------------------------------------ Init
InitWith(n) ==
    /\ budget = n
    /\ now = 0
    /\ USER_SESSIONS = [u \in Users |-> NoSession]
    /\ USER_MESSAGE_LIMITS = [u \in Users |-> NoLimit]
    /\ conns = [u \in Users |-> <<>>]
    /\ tasks = [t \in Tasks |-> IdleTask]
    /\ recent = [u \in Users |-> FALSE]
    /\ quotaUntil = [u \in Users |-> -1]

ResetUserKeepsWs(u) ==
    /\ USER_SESSIONS' = [USER_SESSIONS EXCEPT
                             ![u] = [NewSession EXCEPT !.ws = USER_SESSIONS[u].ws]]
    /\ USER_MESSAGE_LIMITS' =
           [USER_MESSAGE_LIMITS EXCEPT ![u] = ResetLimit(@, now)]

ResetUserAll(u) ==
    /\ USER_SESSIONS' = [USER_SESSIONS EXCEPT ![u] = NewSession]
    /\ USER_MESSAGE_LIMITS' =
           [v \in Users |-> IF USER_MESSAGE_LIMITS[v].present \/ v = u
                            THEN ResetLimit(USER_MESSAGE_LIMITS[v], now)
                            ELSE USER_MESSAGE_LIMITS[v]]

\* ------------------------------------------------------- start_command
\* lines 248-254
ResetUser(u) ==
    /\ USER_SESSIONS' = [USER_SESSIONS EXCEPT ![u] = NewSession]
    /\ USER_MESSAGE_LIMITS' =
           [USER_MESSAGE_LIMITS EXCEPT ![u] = ResetLimit(@, now)]

\* lines 218-224 (and on to the connect when there is nothing to close)
StartBegin(t, u) ==
    /\ FreeFrame(t)
    /\ LET old == USER_SESSIONS[u]
       IN  IF old.present /\ old.ws # NoWs
           THEN /\ tasks' = [tasks EXCEPT ![t] =
                        [IdleTask EXCEPT !.kind = "start", !.user = u,
                                         !.pc = "close", !.ws = old.ws]]
                /\ UNCHANGED <<USER_SESSIONS, USER_MESSAGE_LIMITS>>
           ELSE /\ tasks' = [tasks EXCEPT ![t] =
                        [IdleTask EXCEPT
                            !.kind = "start", !.user = u, !.pc = "connect",
                            !.full = USER_MESSAGE_LIMITS[u].count
                                         >= MAX_MESSAGES_PER_USER]]
                /\ ResetUser(u)
    /\ budget > 0
    /\ budget' = budget - 1
    /\ UNCHANGED <<now, conns, recent, quotaUntil>>

\* await old_session["ws"].close() returns or raises (lines 223-227); the
\* handler then resets the session and the quota (lines 248-254).  When
\* close raises the connection is left as it was.
StartClose(t, raised) ==
    /\ tasks[t].pc = "close"
    /\ NoneReturning
    /\ LET u == tasks[t].user
           c == tasks[t].ws
       IN  conns' = IF ~raised /\ conns[u][c].state = "Open"
                    THEN [conns EXCEPT ![u][c].state = "Closed"]
                    ELSE conns
    /\ ResetUser(tasks[t].user)
    /\ tasks' = [tasks EXCEPT
            ![t].pc = "connect", ![t].ws = NoWs,
            ![t].full = USER_MESSAGE_LIMITS[tasks[t].user].count
                            >= MAX_MESSAGES_PER_USER]
    /\ UNCHANGED <<now, budget, recent, quotaUntil>>

\* the connection websockets.connect returns (line 140)
NewConn == [state |-> "Open", inbox |-> <<>>, sent |-> 0, answered |-> 0]

\* ws = await openai_realtime_connect() returns; lines 258-266, up to the
\* await of the reply
StartConnect(t, ok) ==
    /\ tasks[t].pc = "connect"
    /\ NoneReturning
    /\ LET u == tasks[t].user
           c == Len(conns[u]) + 1
       IN  IF ok
           THEN /\ conns' = [conns EXCEPT ![u] = Append(@, NewConn)]
                /\ USER_SESSIONS' = [USER_SESSIONS EXCEPT ![u].ws = c]
                /\ tasks' = [tasks EXCEPT ![t].pc = "done", ![t].ws = c,
                                          ![t].outcome = "started"]
           ELSE /\ tasks' = [tasks EXCEPT ![t].pc = "done",
                                          ![t].outcome = "connfail"]
                /\ UNCHANGED <<conns, USER_SESSIONS>>
    /\ UNCHANGED <<now, USER_MESSAGE_LIMITS, budget, recent,
                   quotaUntil>>

\* ------------------------------------------------- handle_text_message
\* lines 275-308: session lookup, rate limit, strip, ws check
TextBegin(t, u, empty) ==
    /\ FreeFrame(t)
    /\ budget > 0
    /\ budget' = budget - 1
    /\ LET s == USER_SESSIONS[u]
           before == USER_MESSAGE_LIMITS[u]
           r == RateLimit(before, now)
           path == IF r.denied THEN OnDenied(s, empty) ELSE Proceed(s, empty)
           elapsed == before.present /\ now >= before.reset_time
       IN  IF ~s.present
           THEN /\ tasks' = [tasks EXCEPT ![t] =
                        [IdleTask EXCEPT !.kind = "text", !.user = u,
                                         !.pc = "done",
                                         !.outcome = "nosession"]]
                /\ UNCHANGED <<USER_MESSAGE_LIMITS, recent,
                               quotaUntil>>
           ELSE /\ path.pc = "send" => Committed(u, path.ws) < MaxReq
                /\ USER_MESSAGE_LIMITS' =
                       [USER_MESSAGE_LIMITS EXCEPT ![u] = r.info]
                /\ tasks' = [tasks EXCEPT ![t] =
                        [IdleTask EXCEPT
                            !.kind = "text", !.user = u, !.pc = path.pc,
                            !.ws = path.ws, !.outcome = path.outcome,
                            !.verdict = IF r.denied THEN "quota" ELSE "allowed",
                            !.active = s.ws # NoWs,
                            !.reset = elapsed,
                            !.full = before.count >= MAX_MESSAGES_PER_USER,
                            !.inQuota = now < quotaUntil[u],
                            !.tooSoon = recent[u],
                            !.onLost = /\ s.ws # NoWs
                                       /\ conns[u][s.ws].state = "Lost"]]
                /\ recent' = IF path.pc = "send"
                             THEN [recent EXCEPT ![u] = TRUE]
                             ELSE recent
                /\ quotaUntil' = [quotaUntil EXCEPT ![u] =
                        IF ~r.denied /\ r.info.count >= MAX_MESSAGES_PER_USER
                        THEN r.info.reset_time
                        ELSE @]
    /\ UNCHANGED <<now, USER_SESSIONS, conns>>

\* a frame past the rate check: the history of the check is dropped
Checked(f) ==
    [f EXCEPT !.reset = FALSE, !.full = FALSE, !.inQuota = FALSE,
              !.tooSoon = FALSE, !.onLost = FALSE]

\* the status reply of line 308 returns or raises.  When it raises, line
\* 364 turns it into the error reply with nothing sent.  Otherwise
\* send_message_gpt runs to "await ws.send(...)" (line 169): on a connection
\* that is no longer open it raises at once (error reply, nothing written),
\* else the request is written and the handler waits for the write to drain.
TextSend(t, replied) ==
    /\ tasks[t].pc = "send"
    /\ NoneReturning
    /\ LET u == tasks[t].user
           c == tasks[t].ws
       IN  IF replied /\ conns[u][c].state = "Open"
           THEN /\ conns' = [conns EXCEPT ![u][c].sent = @ + 1]
                /\ tasks' = [tasks EXCEPT ![t] =
                        [Checked(@) EXCEPT !.pc = "drain", !.sent = TRUE,
                                           !.req = conns[u][c].sent + 1]]
           ELSE /\ tasks' = [tasks EXCEPT ![t] =
                        [Checked(@) EXCEPT !.pc = "done", !.outcome = "error"]]
                /\ UNCHANGED conns
    /\ UNCHANGED <<now, USER_SESSIONS, USER_MESSAGE_LIMITS, budget,
                   recent, quotaUntil>>

\* "await ws.send(...)" returns, and the handler enters the receive loop
\* (line 174), or raises because the connection went down during the
\* write: the error reply of line 367, with the request written
TextSent(t) ==
    /\ tasks[t].pc = "drain"
    /\ NoneReturning
    /\ tasks' = IF ConnOf(tasks[t]).state = "Open"
                THEN [tasks EXCEPT ![t].pc = "recv"]
                ELSE [tasks EXCEPT ![t].pc = "done", ![t].outcome = "error"]
    /\ UNCHANGED <<now, USER_SESSIONS, USER_MESSAGE_LIMITS, conns,
                   budget, recent, quotaUntil>>

\* one iteration of "async for message in ws" (lines 174-202): the next
\* buffered message, or the end of the iteration once the connection is
\* closed and drained.  With nothing buffered on an open connection the
\* loop stays suspended.  An empty message breaks the loop (lines 175-177);
\* a message that is not a JSON object, or bytes that do not decode, raise
\* out of the loop into the "except Exception" of line 201; a
\* "response.done" without text ends the loop at line 197 with final_text
\* as it was: all return the empty final_text.  Text that is not JSON and
\* every type tag but "response.done" are passed over.  The handler goes on
\* to the request of elevenlabs_tts (lines 313-319).
TextRecv(t) ==
    /\ tasks[t].pc = "recv"
    /\ NoneReturning
    /\ LET u == tasks[t].user
           c == tasks[t].ws
       IN  IF conns[u][c].inbox # <<>>
           THEN LET m == Head(conns[u][c].inbox)
                IN  /\ conns' = [conns EXCEPT ![u][c].inbox = Tail(@)]
                    /\ tasks' =
                         IF m.kind \in Aborting \cup {"notext"}
                         THEN [tasks EXCEPT ![t].pc = "tts"]
                         ELSE IF m.kind = "done"
                         THEN [tasks EXCEPT ![t].pc = "tts",
                                            ![t].final = m.req]
                         ELSE tasks
           ELSE /\ conns[u][c].state # "Open"
                /\ tasks' = [tasks EXCEPT ![t].pc = "tts",
                                          ![t].lost = (conns[u][c].state = "Lost")]
                /\ UNCHANGED conns
    /\ UNCHANGED <<now, USER_SESSIONS, USER_MESSAGE_LIMITS, budget,
                   recent, quotaUntil>>

\* elevenlabs_tts returns (line 319); lines 320-340 up to the next await:
\* the refusal reply for missing audio or a failed conversion, else
\* reply_voice.  mp3: the synthesis returned bytes; ogg: the conversion
\* produced bytes.
TextSynthesized(t, mp3, ogg) ==
    /\ tasks[t].pc = "tts"
    /\ NoneReturning
    /\ tasks' = [tasks EXCEPT
            ![t].pc = IF mp3 /\ ogg THEN "voice" ELSE "done",
            ![t].tts = IF mp3 THEN "bytes" ELSE "empty",
            ![t].outcome = IF ~mp3 THEN "noaudio"
                           ELSE IF ~ogg THEN "convfail"
                           ELSE "none"]
    /\ UNCHANGED <<now, USER_SESSIONS, USER_MESSAGE_LIMITS, conns,
                   budget, recent, quotaUntil>>

\* await reply_voice returns or raises (lines 340-356): on success the
\* handler goes on to the remaining-messages reply, else to the notice
\* that the voice note could not be sent.  voice: Telegram accepted it.
TextVoice(t, voice) ==
    /\ tasks[t].pc = "voice"
    /\ NoneReturning
    /\ tasks' = IF voice
                THEN [tasks EXCEPT ![t].pc = "done", ![t].outcome = "voice",
                                   ![t].delivered = "voice"]
                ELSE [tasks EXCEPT ![t].pc = "notice"]
    /\ UNCHANGED <<now, USER_SESSIONS, USER_MESSAGE_LIMITS, conns,
                   budget, recent, quotaUntil>>

\* the notice of lines 345-356 returns; the remaining-messages reply
\* (lines 359-362) is the last
TextNotice(t) ==
    /\ tasks[t].pc = "notice"
    /\ NoneReturning
    /\ tasks' = [tasks EXCEPT ![t].pc = "done", ![t].outcome = "voicefail"]
    /\ UNCHANGED <<now, USER_SESSIONS, USER_MESSAGE_LIMITS, conns,
                   budget, recent, quotaUntil>>

\* the replies inside the try of line 306
InTry == {"noaudio", "convfail", "voice", "voicefail"}

\* a reply awaited inside the try of line 306 (lines 321, 330, 345-356,
\* 360-362) raises: line 364 catches it and the error reply of line 367 is
\* the last
TextReplyRaises(t) ==
    /\ tasks[t].kind = "text"
    /\ \/ tasks[t].pc = "notice"
       \/ tasks[t].pc = "done" /\ tasks[t].outcome \in InTry
    /\ NoneReturning
    /\ tasks' = [tasks EXCEPT ![t].pc = "done", ![t].outcome = "error"]
    /\ UNCHANGED <<now, USER_SESSIONS, USER_MESSAGE_LIMITS, conns,
                   budget, recent, quotaUntil>>

\* the last reply returns (or, on the empty-text path, line 298 is
\* reached) and the handler returns
Finish(t) ==
    /\ tasks[t].pc = "done"
    /\ tasks' = [tasks EXCEPT ![t] = IdleTask]
    /\ UNCHANGED <<now, USER_SESSIONS, USER_MESSAGE_LIMITS, conns,
                   budget, recent, quotaUntil>>

\* ---------------------------------------------------------- environment
\* the clock advances by Step hours
Tick ==
    /\ NoneReturning
    /\ now + Step <= MaxTime
    /\ now' = now + Step
    /\ recent' = [u \in Users |-> recent[u] /\ Step * 3600 < COOLDOWN]
    /\ UNCHANGED <<USER_SESSIONS, USER_MESSAGE_LIMITS, conns, tasks,
                   budget, quotaUntil>>

\* the backend emits response.done for the oldest unanswered request;
\* text: the event carries the reply text
BackendDone(u, c, text) ==
    /\ NoneReturning
    /\ conns[u][c].state = "Open"
    /\ conns[u][c].answered < conns[u][c].sent
    /\ Len(conns[u][c].inbox) < MaxInbox
    /\ conns' = [conns EXCEPT
            ![u][c].inbox = Append(@, [kind |-> IF text THEN "done" ELSE "notext",
                                       req |-> conns[u][c].answered + 1]),
            ![u][c].answered = @ + 1]
    /\ UNCHANGED <<now, USER_SESSIONS, USER_MESSAGE_LIMITS, tasks,
                   budget, recent, quotaUntil>>

\* the backend emits any other message; it is delivered
\* when a turn is suspended on the empty buffer of the connection, so one
\* that no turn is waiting for is delivered when the next turn reads
BackendEvent(u, c, k) ==
    /\ NoneReturning
    /\ \E t \in Tasks : /\ tasks[t].pc = "recv"
                        /\ tasks[t].user = u
                        /\ tasks[t].ws = c
    /\ conns[u][c].state = "Open"
    /\ conns[u][c].inbox = <<>>
    /\ conns' = [conns EXCEPT
            ![u][c].inbox = Append(@, [kind |-> k, req |-> 0])]
    /\ UNCHANGED <<now, USER_SESSIONS, USER_MESSAGE_LIMITS, tasks,
                   budget, recent, quotaUntil>>

\* the transport drops
Drop(u, c) ==
    /\ NoneReturning
    /\ conns[u][c].state = "Open"
    /\ conns' = [conns EXCEPT ![u][c].state = "Lost"]
    /\ UNCHANGED <<now, USER_SESSIONS, USER_MESSAGE_LIMITS, tasks,
                   budget, recent, quotaUntil>>

\* ------------------------------------------------------- specification
HandlerStep ==
    \/ \E t \in Tasks, raised \in BOOLEAN : StartClose(t, raised)
    \/ \E t \in Tasks, ok \in BOOLEAN : StartConnect(t, ok)
    \/ \E t \in Tasks, replied \in BOOLEAN : TextSend(t, replied)
    \/ \E t \in Tasks : TextSent(t)
    \/ \E t \in Tasks : TextRecv(t)
    \/ \E t \in Tasks, mp3 \in BOOLEAN, ogg \in BOOLEAN :
           TextSynthesized(t, mp3, ogg)
    \/ \E t \in Tasks, voice \in BOOLEAN : TextVoice(t, voice)
    \/ \E t \in Tasks : TextNotice(t)
    \/ \E t \in Tasks : TextReplyRaises(t)
    \/ \E t \in Tasks : Finish(t)

Next ==
    \/ \E t \in Tasks, u \in Users : StartBegin(t, u)
    \/ \E t \in Tasks, u \in Users, empty \in BOOLEAN : TextBegin(t, u, empty)
    \/ HandlerStep
    \/ Tick
    \/ \E u \in Users : \E c \in DOMAIN conns[u] : \E text \in BOOLEAN :
           BackendDone(u, c, text)
    \/ \E u \in Users : \E c \in DOMAIN conns[u] :
           \E k \in Kinds \ Completions : BackendEvent(u, c, k)
    \/ \E u \in Users : \E c \in DOMAIN conns[u] : Drop(u, c)

\* the bot as main() builds it: ApplicationBuilder().token(...).build()
Init == InitWith(MaxUpdates)

Spec == Init /\ [][Next]_vars

\* the event loop keeps running a handler that can take a step; nothing
\* obliges the backend to send or the user to write
InitFair == InitWith(MaxFairUpdates)

FairSpec == InitFair /\ [][Next]_vars /\ WF_vars(HandlerStep)

\* =============================================================== claims
Rejections == {"nosession", "nows", "quota", "empty"}

\* C1: once the user has used up the quota of a window, every
\* check before that window's end is denied with the quota reason, whatever
\* was done in between (text turns and /start commands).
C1_QuotaUntilWindowEnds ==
    \A t \in Tasks : tasks[t].inQuota => tasks[t].verdict = "quota"

\* C2: a check at a time now >= reset_time first sets the count to 0 and
\* starts a new window at now, so the turn is allowed and counts as 1 of the
\* window that ends at now + 24h.
C2_LazyResetAtCheck ==
    [][\A t \in Tasks : \A u \in Users :
          ( /\ tasks[t].pc = "idle"
            /\ tasks'[t].verdict # "none"
            /\ tasks'[t].user = u
            /\ USER_MESSAGE_LIMITS[u].present
            /\ now >= USER_MESSAGE_LIMITS[u].reset_time )
          => ( /\ tasks'[t].verdict = "allowed"
               /\ USER_MESSAGE_LIMITS'[u].count = 1
               /\ USER_MESSAGE_LIMITS'[u].reset_time = now + WINDOW )]_vars

\* a user who was at quota is allowed by the first check after the window
C2_Witness ==
    \E t \in Tasks :
        /\ tasks[t].reset
        /\ tasks[t].full
        /\ tasks[t].verdict = "allowed"
        /\ USER_MESSAGE_LIMITS[tasks[t].user].count = 1

\* C3: a turn submitted less than the cooldown after an accepted turn of the
\* same user is denied with the cooldown reason, whatever the quota state.
C3_CooldownDenied ==
    \A t \in Tasks : tasks[t].tooSoon => tasks[t].verdict = "cooldown"

\* C4: every open connection of a user is the one recorded in the user's
\* session entry, so at most one is open and none is leaked.
C4_OneOpenConnection ==
    \A u \in Users : \A c \in DOMAIN conns[u] :
        conns[u][c].state = "Open" => USER_SESSIONS[u].ws = c

\* C5: a turn for a user without a session entry, or whose entry holds no
\* connection, is rejected: nothing is sent to the backend, no speech is
\* requested and no reply is delivered.
C5_NotActiveRejected ==
    \A t \in Tasks :
        (tasks[t].kind = "text" /\ ~tasks[t].active)
        => /\ tasks[t].pc = "done"
           /\ tasks[t].outcome \in Rejections
           /\ ~tasks[t].sent
           /\ tasks[t].tts = "none"

\* a turn rejected because the connect of the user's /start failed
C5_Witness ==
    \E t \in Tasks :
        /\ tasks[t].outcome = "nows"
        /\ USER_SESSIONS[tasks[t].user].present
        /\ USER_SESSIONS[tasks[t].user].ws = NoWs

\* C6: a turn denied by the quota check sends no event on the connection and
\* makes no speech-synthesis request.
C6_DeniedBeforeIO ==
    \A t \in Tasks :
        tasks[t].verdict = "quota" => ~tasks[t].sent /\ tasks[t].tts = "none"

\* a turn denied while the user's connection is open
C6_Witness ==
    \E t \in Tasks :
        /\ tasks[t].verdict = "quota"
        /\ USER_SESSIONS[tasks[t].user].ws # NoWs
        /\ conns[tasks[t].user][USER_SESSIONS[tasks[t].user].ws].state = "Open"

\* C7: the step that denies a turn leaves the rate-limit entries and the
\* session entries as they were.
C7_DeniedNoSideEffect ==
    [][\A t \in Tasks :
          (tasks[t].pc = "idle" /\ tasks'[t].verdict = "quota")
          => /\ USER_MESSAGE_LIMITS' = USER_MESSAGE_LIMITS
             /\ USER_SESSIONS' = USER_SESSIONS]_vars

\* a turn denied with the count at the quota and the window not elapsed
C7_Witness ==
    \E t \in Tasks :
        /\ tasks[t].verdict = "quota"
        /\ tasks[t].full
        /\ ~tasks[t].reset
        /\ USER_MESSAGE_LIMITS[tasks[t].user].count = MAX_MESSAGES_PER_USER

\* C8: every turn that waits for its reply completes, also when the backend
\* stays silent.
C8_TurnCompletes ==
    \A t \in Tasks : (tasks[t].pc = "recv") ~> (tasks[t].pc = "done")

\* C9: when the transport drops, the outstanding turn fails with a
\* connection-lost error and delivers nothing, the session no longer holds
\* the dead connection, and a turn submitted on it later is rejected.
C9_ConnectionLostClosesSession ==
    \A t \in Tasks :
        /\ (tasks[t].lost /\ tasks[t].pc = "done")
           => /\ tasks[t].outcome = "connlost"
              /\ USER_SESSIONS[tasks[t].user].ws # tasks[t].ws
        /\ tasks[t].onLost
           => tasks[t].pc = "done" /\ tasks[t].outcome \in Rejections

\* C10: a turn whose final text arrived and whose speech synthesis returned
\* no bytes is delivered as a reply.
C10_TextOnlyReply ==
    \A t \in Tasks :
        (tasks[t].pc = "done" /\ tasks[t].final # NoText /\ tasks[t].tts = "empty")
        => tasks[t].delivered # "none"

\* C11: the step in which start_command resets the rate-limit entry (lines
\* 253-254) leaves the user with count 0 and reset_time 24h after the time
\* of the reset, whatever the count was and before the connect is tried.
C11_StartResetsUsage ==
    [][\A t \in Tasks : \A u \in Users :
          ( /\ tasks'[t].kind = "start"
            /\ tasks'[t].user = u
            /\ tasks'[t].pc = "connect"
            /\ tasks[t].pc # "connect" )
          => USER_MESSAGE_LIMITS'[u] =
                 [present |-> TRUE, count |-> 0, reset_time |-> now + WINDOW]]_vars

\* a /start of a user who was at quota, whose connect then failed
C11_Witness ==
    \E t \in Tasks :
        /\ tasks[t].kind = "start"
        /\ tasks[t].full
        /\ tasks[t].outcome = "connfail"
        /\ USER_MESSAGE_LIMITS[tasks[t].user].count = 0
        /\ USER_MESSAGE_LIMITS[tasks[t].user].reset_time = now + WINDOW

\* C12: a received event other than the completion event (non-JSON text, an
\* empty message, JSON that is not an object, an unknown type tag, bytes) is
\* skipped: the turn that read it is still waiting in its receive loop.
C12_BadEventSkipped ==
    [][\A t \in Tasks :
          ( /\ tasks[t].pc = "recv"
            /\ ConnOf(tasks[t]).inbox # <<>>
            /\ Head(ConnOf(tasks[t]).inbox).kind \notin Completions
            /\ conns'[tasks[t].user][tasks[t].ws].inbox
                   = Tail(ConnOf(tasks[t]).inbox) )
          => tasks'[t].pc = "recv"]_vars

\* C13: a turn that reads an explicit error event ends there as a failed
\* turn, without reply text, its session keeping the same connection.
C13_ErrorEventFailsTurn ==
    [][\A t \in Tasks :
          ( /\ tasks[t].pc = "recv"
            /\ ConnOf(tasks[t]).inbox # <<>>
            /\ Head(ConnOf(tasks[t]).inbox).kind = "error"
            /\ conns'[tasks[t].user][tasks[t].ws].inbox
                   = Tail(ConnOf(tasks[t]).inbox) )
          => /\ tasks'[t].pc # "recv"
             /\ tasks'[t].final = NoText
             /\ USER_SESSIONS'[tasks[t].user] = USER_SESSIONS[tasks[t].user]]_vars

\* C14: the count is incremented only for a turn that is then sent to the
\* backend: a turn rejected for a missing connection or for text that is
\* empty after stripping leaves the count as it was.
C14_ConsumeOnlyCommitted ==
    [][\A t \in Tasks :
          ( /\ tasks[t].pc = "idle"
            /\ tasks'[t].kind = "text"
            /\ USER_MESSAGE_LIMITS'[tasks'[t].user].count
                   > USER_MESSAGE_LIMITS[tasks'[t].user].count )
          => tasks'[t].pc = "send"]_vars

\* the step is handle_text_message of u reaching its rate-limit check with
\* the window of u's entry elapsed
ElapsedAtCheck(u) ==
    \E t \in Tasks :
        /\ tasks[t].pc = "idle"
        /\ tasks'[t].kind = "text"
        /\ tasks'[t].user = u
        /\ USER_SESSIONS[u].present
        /\ now >= USER_MESSAGE_LIMITS[u].reset_time

\* C15: the count of an existing entry restarts and its reset_time
\* moves exactly in the steps where a check observes the window elapsed; in
\* every other step the count does not decrease and reset_time does not move.
C15_ResetOnlyWhenElapsed ==
    [][\A u \in Users :
          USER_MESSAGE_LIMITS[u].present =>
              IF ElapsedAtCheck(u)
              THEN /\ USER_MESSAGE_LIMITS'[u].count = 1
                   /\ USER_MESSAGE_LIMITS'[u].reset_time = now + WINDOW
              ELSE /\ USER_MESSAGE_LIMITS'[u].count
                          >= USER_MESSAGE_LIMITS[u].count
                   /\ USER_MESSAGE_LIMITS'[u].reset_time
                          = USER_MESSAGE_LIMITS[u].reset_time]_vars

\* C16: no two turns of one user are outstanding on a connection together:
\* while a turn is between its send and the end of its receive loop, no
\* other turn of that user has sent on, or reads from, that connection.
C16_TurnSerial ==
    \A t1 \in Tasks : \A t2 \in Tasks \ {t1} :
        ~ ( /\ tasks[t1].kind = "text" /\ tasks[t1].pc \in {"drain", "recv"}
            /\ tasks[t2].kind = "text" /\ tasks[t2].pc \in {"drain", "recv"}
            /\ tasks[t1].user = tasks[t2].user
            /\ tasks[t1].ws = tasks[t2].ws )

\* a second turn is outstanding on a connection that served an earlier one
C16_Witness ==
    \E t \in Tasks :
        /\ tasks[t].kind = "text"
        /\ tasks[t].pc = "recv"
        /\ tasks[t].req = 2

\* C17: a turn that is about to send on a connection, or waits for its reply
\* from it, holds the connection of the user's current session entry, and
\* no /start has closed that connection.
C17_NoTornDownConnection ==
    \A t \in Tasks :
        (tasks[t].kind = "text" /\ tasks[t].pc \in {"send", "drain", "recv"})
        => /\ tasks[t].ws \in DOMAIN conns[tasks[t].user]
           /\ ConnOf(tasks[t]).state # "Closed"
           /\ USER_SESSIONS[tasks[t].user].ws = tasks[t].ws

\* a turn waits on the connection of a second /start, the first closed
C17_Witness ==
    \E t \in Tasks : \E c \in DOMAIN conns[tasks[t].user] :
        /\ tasks[t].kind = "text"
        /\ tasks[t].pc = "recv"
        /\ c # tasks[t].ws
        /\ conns[tasks[t].user][c].state = "Closed"
        /\ conns[tasks[t].user][c].sent > 0

\* C18: a step changes the session entry or the rate-limit entry of a user
\* only if it is a step of a handler invoked for that user.
C18_SessionsIndependent ==
    [][\A u \in Users :
          ( \/ USER_SESSIONS'[u] # USER_SESSIONS[u]
            \/ USER_MESSAGE_LIMITS'[u] # USER_MESSAGE_LIMITS[u] )
          => \E t \in Tasks :
                 /\ tasks'[t] # tasks[t]
                 /\ tasks'[t].user = u
                 /\ tasks'[t].kind # "none"
                 /\ \A t2 \in Tasks \ {t} : tasks'[t2] = tasks[t2]]_vars

\* /start of u1 has reset u1 while u2 holds a connection and a used count
C18_Witness ==
    \E t \in Tasks :
        /\ tasks[t].kind = "start"
        /\ tasks[t].user = "u1"
        /\ tasks[t].pc = "connect"
        /\ USER_SESSIONS["u2"].ws # NoWs
        /\ USER_MESSAGE_LIMITS["u2"].count = 1

\* C19: in every reachable state the count of every user is between 0 and
\* MAX_MESSAGES_PER_USER.
C19_CountWithinQuota ==
    \A u \in Users :
        /\ USER_MESSAGE_LIMITS[u].count >= 0
        /\ USER_MESSAGE_LIMITS[u].count <= MAX_MESSAGES_PER_USER

\* a message was checked and refused with the count at its maximum
C19_Witness ==
    \E t \in Tasks :
        /\ tasks[t].kind = "text"
        /\ tasks[t].outcome = "quota"
        /\ USER_MESSAGE_LIMITS[tasks[t].user].count = MAX_MESSAGES_PER_USER

\* C20: the reply text a turn takes from the connection is the completion
\* text of its own request, also when an earlier turn on the connection
\* ended without reading its completion event.
C20_ReplyOfOwnRequest ==
    \A t \in Tasks :
        tasks[t].final # NoText => tasks[t].final = tasks[t].req

====
